---- MODULE Spec2Model ----
(***************************************************************************)
(* Music Journal backend (src/index.js): the Express request handlers, the *)
(* session slot of each client and the four tables they read and write.    *)
(* Every store statement (pool.query) is one atomic step; the synchronous  *)
(* code between two awaits belongs to the step of the statement before it. *)
(* Each client owns one session cookie and has one request in flight at a  *)
(* time; requests of different clients interleave statement by statement.  *)
(***************************************************************************)
EXTENDS Integers, Sequences, FiniteSets, TLC

\* ---------------------------------------------------------------- bounds
\* Total number of requests the clients issue in one behaviour.
MaxRequests == 4
\* Upper end of the store clock (seconds of CURRENT_TIMESTAMP, from 0): at 0
\* all statements of a behaviour run within one second.
MaxTime == 0
\* Passwords of the strength check: up to MaxPad copies of one character
\* followed by up to MaxTail free characters.
MaxPad == 6
MaxTail == 3

\* ------------------------------------------------------ program constants
MinPasswordLength == 8
MinRating == 1
MaxRating == 5

\* ------------------------------------------------------------ JS values
UNDEFINED == "<undefined>"
NULL == "<null>"

\* JavaScript truthiness of a string-or-absent value: !x
Falsy(x) == x \in {UNDEFINED, NULL, ""}

\* a || b
OrElse(a, b) == IF Falsy(a) THEN b ELSE a

\* --------------------------------------------------- passwords and regex
Lower == {"a", "b", "c", "d", "e", "f", "g", "x", "y", "z"}
Upper == {"A", "B", "X", "Z"}
Digit == {"0", "1", "9"}
LineTerminator == {"\n", "\r"}

\* regex atom "." without the s flag
Dot(c) == c \notin LineTerminator

\* a character class [S], or [^S] when negated
InClass(c, S, negated) == (c \in S) # negated

\* (?=.*[S]) anchored at the start: some position holds a character of the
\* class and every character before it is matched by "."
Lookahead(p, S, negated) ==
    \E i \in 1..Len(p) : InClass(p[i], S, negated) /\ \A j \in 1..(i - 1) : Dot(p[j])

\* .{8,}$ anchored at the start, no m flag: "$" is the end of the input only
DotsToEnd(p) == Len(p) >= MinPasswordLength /\ \A i \in 1..Len(p) : Dot(p[i])

passwordMeetsRequirements(p) ==
    /\ Lookahead(p, Lower, FALSE)
    /\ Lookahead(p, Upper, FALSE)
    /\ Lookahead(p, Digit, FALSE)
    /\ Lookahead(p, Lower \cup Upper \cup Digit, TRUE)
    /\ DotsToEnd(p)

\* bcrypt.hash(password, 10) and bcrypt.compare(password, hash)
bcryptHash(p) == [alg |-> "bcrypt", cost |-> 10, of |-> p]
bcryptCompare(p, h) == h = bcryptHash(p)

\* the empty string as a password (a sequence of characters)
NoPassword == << >>
StrongPassword == <<"A", "b", "c", "d", "e", "f", "1", "!">>
WeakPassword == <<"a", "b", "c", "d", "e", "f", "g", "1">>


\* ------------------------------------------------------- rating values
\* A JSON rating: null/undefined, a number int + (half ? 0.5 : 0), or a
\* string that is no numeral.
RatingNull == [k |-> "null", int |-> 0, half |-> FALSE]
RatingText == [k |-> "text", int |-> 0, half |-> FALSE]
NaN == [k |-> "nan", int |-> 0, half |-> FALSE]
Num(i, h) == [k |-> "num", int |-> i, half |-> h]

\* Number(rating)
Number(r) == IF r.k = "num" THEN r ELSE IF r.k = "null" THEN Num(0, FALSE) ELSE NaN

\* Number.isInteger(n)
IsInteger(n) == n.k = "num" /\ ~n.half

\* n < m and n > m for an integer m; every comparison with NaN is false
LessThan(n, m) == n.k = "num" /\ n.int < m
GreaterThan(n, m) == n.k = "num" /\ (n.int > m \/ (n.int = m /\ n.half))

\* ------------------------------------------------------------ input sets
Sessions == {"s1", "s2"}
Usernames == {"alice", "bob"}
ExternalIds == {"e1", "e2"}

\* { username, password } bodies of POST /register and POST /login
Credentials ==
    {[username |-> u, password |-> StrongPassword] : u \in Usernames}
    \cup {[username |-> "alice", password |-> WeakPassword],
          [username |-> UNDEFINED, password |-> StrongPassword],
          [username |-> "bob", password |-> NoPassword]}

\* title, artist and coverUrl as a request supplies them
FirstMeta == [title |-> "t1", artist |-> "a1", coverUrl |-> "c1"]
OtherMeta == [title |-> "t2", artist |-> "a2", coverUrl |-> UNDEFINED]
NoMeta == [title |-> UNDEFINED, artist |-> UNDEFINED, coverUrl |-> UNDEFINED]

\* ----------------------------------------------------------------- state
VARIABLES
    users,          \* table users: sequence of rows, id = position
    albums,         \* table albums: sequence of rows, id = position
    user_albums,    \* table user_albums: set of rows
    track_ratings,  \* table track_ratings: set of rows
    session,        \* req.session of each client's cookie: userId, username
    req,            \* each client's latest request and the position of its handler
    resp,           \* the response to that request, once sent
    now,            \* the latest CURRENT_TIMESTAMP the store has handed out
    nreq            \* requests each client has issued so far

tables == <<users, albums, user_albums, track_ratings>>
vars == <<users, albums, user_albums, track_ratings, session, req, resp, now, nreq>>

\* a session that carries no userId
NoUser == [userId |-> 0, username |-> ""]

\* JSON null for the user of a response
NullUser == [id |-> 0, username |-> "", created_at |-> -1]

NoBody ==
    [username |-> UNDEFINED, password |-> NoPassword, externalId |-> UNDEFINED,
     title |-> UNDEFINED, artist |-> UNDEFINED, coverUrl |-> UNDEFINED,
     notes |-> UNDEFINED, trackId |-> UNDEFINED, trackName |-> UNDEFINED,
     rating |-> RatingNull]

AlbumBody(externalId, meta) ==
    [NoBody EXCEPT !.externalId = externalId, !.title = meta.title,
                   !.artist = meta.artist, !.coverUrl = meta.coverUrl]

\* bodies of POST /user/albums
PostAlbumBodies ==
    {AlbumBody("e1", m) : m \in {FirstMeta, OtherMeta}}
    \cup {AlbumBody("e2", FirstMeta)}
    \cup {AlbumBody(UNDEFINED, FirstMeta), AlbumBody("e1", NoMeta)}

\* bodies of POST /user/album-notes
PostNotesBodies ==
    {[AlbumBody(e, OtherMeta) EXCEPT !.notes = "n1"] : e \in ExternalIds}
    \cup {[AlbumBody("e1", NoMeta) EXCEPT !.notes = n] : n \in {UNDEFINED, ""}}
    \cup {[AlbumBody("e2", NoMeta) EXCEPT !.notes = NULL]}
    \cup {[AlbumBody(UNDEFINED, OtherMeta) EXCEPT !.notes = "n1"]}

\* a track id that names the prototype accessor of a JavaScript object
ProtoKey == "__proto__"

RatingBody(externalId, meta, trackId, trackName, rating) ==
    [AlbumBody(externalId, meta) EXCEPT
        !.trackId = trackId, !.trackName = trackName, !.rating = rating]

\* bodies of POST /user/ratings
PostRatingBodies ==
    {RatingBody("e1", FirstMeta, "k1", "track one", Num(r, FALSE)) :
        r \in {MinRating, MaxRating}}
    \cup {RatingBody("e2", FirstMeta, "k1", "track one", Num(MaxRating, FALSE))}
    \cup {RatingBody("e1", NoMeta, "k1", "track 1", Num(r, FALSE)) :
              r \in {0, 3, 6}}
    \cup {RatingBody("e1", NoMeta, "k1", "track 1", r) :
              r \in {Num(3, TRUE), RatingText, RatingNull}}
    \cup {RatingBody("e1", NoMeta, ProtoKey, "track 2", Num(3, FALSE))}
    \cup {RatingBody(UNDEFINED, NoMeta, "k1", "track 1", Num(3, FALSE)),
          RatingBody("e1", NoMeta, UNDEFINED, "track 1", Num(3, FALSE)),
          RatingBody("e1", NoMeta, "k1", UNDEFINED, Num(3, FALSE))}

IdleReq == [pc |-> "idle", route |-> "", userId |-> 0, body |-> NoBody, albumId |-> 0]

NoResp ==
    [route |-> "", status |-> 0, error |-> "", success |-> FALSE, albumId |-> 0,
     user |-> NullUser, albums |-> << >>, ratings |-> << >>]

\* res.status(status).json({ error })
ErrorJson(route, status, error) ==
    [NoResp EXCEPT !.route = route, !.status = status, !.error = error]

\* res.json({ success: true })
SuccessJson(route) == [NoResp EXCEPT !.route = route, !.status = 200, !.success = TRUE]

\* -------------------------------------------------------------- helpers
\* CURRENT_TIMESTAMP of a statement: the store clock never runs backwards
CurrentTimestamp(t) == t \in now..MaxTime

\* rows of: SELECT * FROM users WHERE username = ?
findUserByUsername(username) ==
    {i \in 1..Len(users) : users[i].username = username}

\* unique key of users.username: the INSERT is refused with a duplicate-key error
UsersDuplicateKey(username) ==
    \E i \in 1..Len(users) : users[i].username = username

\* the response leaves the handler and the client may issue its next request
Respond(s, r) ==
    /\ resp' = [resp EXCEPT ![s] = r]
    /\ req' = [req EXCEPT ![s].pc = "done"]

\* a request arrives and its handler responds before any await
Reject(s, route, body, r) ==
    /\ req' = [req EXCEPT ![s] =
                  [pc |-> "done", route |-> route, userId |-> session[s].userId,
                   body |-> body, albumId |-> 0]]
    /\ resp' = [resp EXCEPT ![s] = r]

\* the handler reaches its next await
Goto(s, pc) ==
    /\ req' = [req EXCEPT ![s].pc = pc]
    /\ UNCHANGED resp

\* a request arrives and its handler runs to its first await
Begin(s, route, body, pc) ==
    /\ req' = [req EXCEPT ![s] =
                  [pc |-> pc, route |-> route, userId |-> session[s].userId,
                   body |-> body, albumId |-> 0]]
    /\ resp' = [resp EXCEPT ![s] = NoResp]

\* requests issued by the clients of S
RECURSIVE Issued(_)
Issued(S) ==
    IF S = {} THEN 0
    ELSE LET s == CHOOSE x \in S : TRUE IN nreq[s] + Issued(S \ {s})

\* client s has no request in flight and may issue one
CanStart(s) == req[s].pc \in {"idle", "done"} /\ Issued(Sessions) < MaxRequests

\* this step is the arrival of a request of client s
Arrives(s) == nreq'[s] = nreq[s] + 1

At(s, route, pc) == req[s].route = route /\ req[s].pc = pc

\* ---------------------------------------------------------- POST /register
WeakPasswordMessage ==
    "Password must be at least 8 characters and include uppercase, lowercase, number, and special character."

RegisterArrive(s, username, password) ==
    LET body == [NoBody EXCEPT !.username = username, !.password = password]
    IN  IF Falsy(username) \/ password = NoPassword
        THEN Reject(s, "register", body,
                    ErrorJson("register", 400, "Username and password required"))
        ELSE IF ~passwordMeetsRequirements(password)
        THEN Reject(s, "register", body, ErrorJson("register", 400, WeakPasswordMessage))
        ELSE Begin(s, "register", body, "findUser")

RegisterStart(s) ==
    /\ CanStart(s)
    /\ \E c \in Credentials : RegisterArrive(s, c.username, c.password)
    /\ nreq' = [nreq EXCEPT ![s] = @ + 1]
    /\ UNCHANGED <<tables, session, now>>

RegisterFindUser(s) ==
    /\ At(s, "register", "findUser")
    /\ IF findUserByUsername(req[s].body.username) # {}
       THEN Respond(s, ErrorJson("register", 400, "Username already taken"))
       ELSE Goto(s, "insertUser")
    /\ UNCHANGED <<tables, session, now, nreq>>

\* Mutant of RegisterInsertUser: the session is written before the result
\* of the INSERT is known.
RegisterInsertUserSessionFirst(s) ==
    /\ At(s, "register", "insertUser")
    /\ LET username == req[s].body.username
           userId == Len(users) + 1
       IN  /\ session' = [session EXCEPT ![s] = [userId |-> userId, username |-> username]]
           /\ IF UsersDuplicateKey(username)
              THEN /\ Respond(s, ErrorJson("register", 500, "Server error during registration"))
                   /\ UNCHANGED <<users, now>>
              ELSE /\ CurrentTimestamp(now')
                   /\ users' = Append(users,
                          [id |-> userId, username |-> username,
                           password_hash |-> bcryptHash(req[s].body.password),
                           created_at |-> now'])
                   /\ Respond(s, [SuccessJson("register") EXCEPT
                                     !.user = [id |-> userId, username |-> username,
                                               created_at |-> -1]])
    /\ UNCHANGED <<albums, user_albums, track_ratings, nreq>>

RegisterInsertUser(s) ==
    /\ At(s, "register", "insertUser")
    /\ LET username == req[s].body.username
           userId == Len(users) + 1
       IN  IF UsersDuplicateKey(username)
           THEN /\ Respond(s, ErrorJson("register", 500, "Server error during registration"))
                /\ UNCHANGED <<users, session, now>>
           ELSE /\ CurrentTimestamp(now')
                /\ users' = Append(users,
                       [id |-> userId, username |-> username,
                        password_hash |-> bcryptHash(req[s].body.password),
                        created_at |-> now'])
                /\ session' = [session EXCEPT ![s] = [userId |-> userId, username |-> username]]
                /\ Respond(s, [SuccessJson("register") EXCEPT
                                  !.user = [id |-> userId, username |-> username,
                                            created_at |-> -1]])
    /\ UNCHANGED <<albums, user_albums, track_ratings, nreq>>

\* ------------------------------------------------------------- POST /login
LoginArrive(s, username, password) ==
    LET body == [NoBody EXCEPT !.username = username, !.password = password]
    IN  IF Falsy(username) \/ password = NoPassword
        THEN Reject(s, "login", body,
                    ErrorJson("login", 400, "Username and password required"))
        ELSE Begin(s, "login", body, "findUser")

LoginStart(s) ==
    /\ CanStart(s)
    /\ \E c \in Credentials : LoginArrive(s, c.username, c.password)
    /\ nreq' = [nreq EXCEPT ![s] = @ + 1]
    /\ UNCHANGED <<tables, session, now>>

\* the response of a login that found no user row
LoginUnknownUser(s) ==
    Respond(s, ErrorJson("login", 400, "Invalid username or password"))

\* Mutant of LoginWrongPassword: the mismatch is reported as such.
LoginWrongPasswordTold(s) ==
    Respond(s, ErrorJson("login", 401, "Wrong password"))

\* the response of a login whose password does not match the stored hash
LoginWrongPassword(s) ==
    Respond(s, ErrorJson("login", 400, "Invalid username or password"))

LoginFindUser(s) ==
    /\ At(s, "login", "findUser")
    /\ LET rows == findUserByUsername(req[s].body.username)
       IN  IF rows = {}
           THEN LoginUnknownUser(s) /\ UNCHANGED session
           ELSE \E i \in rows :
                    LET user == users[i]
                    IN  IF ~bcryptCompare(req[s].body.password, user.password_hash)
                        THEN LoginWrongPassword(s) /\ UNCHANGED session
                        ELSE /\ session' = [session EXCEPT ![s] =
                                               [userId |-> user.id,
                                                username |-> user.username]]
                             /\ Respond(s, [SuccessJson("login") EXCEPT
                                               !.user = [id |-> user.id,
                                                         username |-> user.username,
                                                         created_at |-> -1]])
    /\ UNCHANGED <<tables, now, nreq>>

\* ------------------------------------------------------------------ GET /me
MeStart(s) ==
    /\ CanStart(s)
    /\ IF session[s].userId = 0
       THEN Reject(s, "me", NoBody, [NoResp EXCEPT !.route = "me", !.status = 200])
       ELSE Begin(s, "me", NoBody, "selectUser")
    /\ nreq' = [nreq EXCEPT ![s] = @ + 1]
    /\ UNCHANGED <<tables, session, now>>

MeSelectUser(s) ==
    /\ At(s, "me", "selectUser")
    /\ LET rows == {i \in 1..Len(users) : users[i].id = req[s].userId}
       IN  IF rows = {}
           THEN Respond(s, [NoResp EXCEPT !.route = "me", !.status = 200])
           ELSE \E i \in rows :
                    Respond(s, [NoResp EXCEPT
                                   !.route = "me", !.status = 200,
                                   !.user = [id |-> users[i].id,
                                             username |-> users[i].username,
                                             created_at |-> users[i].created_at]])
    /\ UNCHANGED <<tables, session, now, nreq>>

\* ------------------------------------------------------------ POST /logout
\* Mutant of Logout: success is answered but the session is not destroyed.
LogoutKeepsSession(s) ==
    /\ CanStart(s)
    /\ Reject(s, "logout", NoBody, SuccessJson("logout"))
    /\ nreq' = [nreq EXCEPT ![s] = @ + 1]
    /\ UNCHANGED <<tables, session, now>>

\* req.session.destroy, res.clearCookie, res.json({ success: true })
Logout(s) ==
    /\ CanStart(s)
    /\ session' = [session EXCEPT ![s] = NoUser]
    /\ Reject(s, "logout", NoBody, SuccessJson("logout"))
    /\ nreq' = [nreq EXCEPT ![s] = @ + 1]
    /\ UNCHANGED <<tables, now>>


\* ------------------------------------------------------------ /user/* gate
\* Mutant of requireLogin: the gate lets every request through.
requireLoginOpen(s) == TRUE

\* The gate answers before the handler destructures req.body: a request it
\* refuses is recorded without a body.
requireLogin(s) == session[s].userId # 0

NotAuthenticated(route) == ErrorJson(route, 401, "Not authenticated")

\* the response of each route's catch (err)
ServerError(route) ==
    CASE route = "register" -> ErrorJson(route, 500, "Server error during registration")
      [] route = "login" -> ErrorJson(route, 500, "Server error during login")
      [] route = "me" -> ErrorJson(route, 500, "Server error fetching user")
      [] route = "postAlbum" -> ErrorJson(route, 500, "Server error saving album")
      [] route = "getAlbums" -> ErrorJson(route, 500, "Server error fetching user albums")
      [] route = "postNotes" -> ErrorJson(route, 500, "Server error saving notes")
      [] route = "postRating" -> ErrorJson(route, 500, "Server error saving rating")
      [] route = "getRatings" -> ErrorJson(route, 500, "Server error fetching ratings")

\* ------------------------------------------------------- findOrCreateAlbum
\* Mutant of AlbumsDuplicateKey: albums.external_id carries no unique key.
AlbumsNoUniqueKey(externalId) == FALSE

\* unique key of albums.external_id: the INSERT is refused with a duplicate-key error
AlbumsDuplicateKey(externalId) ==
    \E i \in 1..Len(albums) : albums[i].external_id = externalId

\* the arguments each route passes to findOrCreateAlbum
AlbumArgs(r) ==
    IF r.route = "postAlbum"
    THEN [external_id |-> r.body.externalId, title |-> r.body.title,
          artist |-> r.body.artist, cover_url |-> OrElse(r.body.coverUrl, NULL)]
    ELSE [external_id |-> r.body.externalId,
          title |-> OrElse(r.body.title, "Unknown album"),
          artist |-> OrElse(r.body.artist, "Unknown artist"),
          cover_url |-> OrElse(r.body.coverUrl, NULL)]

AlbumRoutes == {"postAlbum", "postNotes", "postRating"}

\* the routes behind requireLogin
UserRoutes == {"postAlbum", "getAlbums", "postNotes", "postRating", "getRatings"}

\* Mutant of FindAlbum: an album found is refreshed with the title, artist
\* and cover of the request.
FindAlbumRefresh(s) ==
    /\ req[s].route \in AlbumRoutes /\ req[s].pc = "findAlbum"
    /\ LET existing == {i \in 1..Len(albums) :
                           albums[i].external_id = req[s].body.externalId}
           args == AlbumArgs(req[s])
       IN  IF existing # {}
           THEN \E i \in existing :
                    /\ req' = [req EXCEPT ![s].albumId = albums[i].id,
                                          ![s].pc = "ensureUserAlbum"]
                    /\ albums' = [albums EXCEPT ![i].title = args.title,
                                                ![i].artist = args.artist,
                                                ![i].cover_url = args.cover_url]
           ELSE req' = [req EXCEPT ![s].pc = "insertAlbum"] /\ UNCHANGED albums
    /\ UNCHANGED <<users, user_albums, track_ratings, session, resp, now, nreq>>

\* SELECT id FROM albums WHERE external_id = ?
FindAlbum(s) ==
    /\ req[s].route \in AlbumRoutes /\ req[s].pc = "findAlbum"
    /\ LET existing == {i \in 1..Len(albums) :
                           albums[i].external_id = req[s].body.externalId}
       IN  IF existing # {}
           THEN \E i \in existing :
                    req' = [req EXCEPT ![s].albumId = albums[i].id,
                                       ![s].pc = "ensureUserAlbum"]
           ELSE req' = [req EXCEPT ![s].pc = "insertAlbum"]
    /\ UNCHANGED <<tables, session, resp, now, nreq>>

\* INSERT INTO albums (external_id, title, artist, cover_url) VALUES (?, ?, ?, ?)
InsertAlbum(s) ==
    /\ req[s].route \in AlbumRoutes /\ req[s].pc = "insertAlbum"
    /\ LET args == AlbumArgs(req[s])
           insertId == Len(albums) + 1
       IN  IF AlbumsDuplicateKey(args.external_id)
           THEN /\ Respond(s, ServerError(req[s].route))
                /\ UNCHANGED albums
           ELSE /\ albums' = Append(albums,
                       [id |-> insertId, external_id |-> args.external_id,
                        title |-> args.title, artist |-> args.artist,
                        cover_url |-> args.cover_url])
                /\ req' = [req EXCEPT ![s].albumId = insertId,
                                      ![s].pc = "ensureUserAlbum"]
                /\ UNCHANGED resp
    /\ UNCHANGED <<users, user_albums, track_ratings, session, now, nreq>>

\* unique key of user_albums: (user_id, album_id)
UserAlbumsDuplicateKey(userId, albumId) ==
    \E ua \in user_albums : ua.user_id = userId /\ ua.album_id = albumId

\* the columns of user_albums an INSERT does not name take their defaults:
\* notes NULL, created_at the CURRENT_TIMESTAMP of the statement, in seconds
UserAlbumsDefaults(t) == [notes |-> NULL, created_at |-> t]

\* Mutant of ensureUserAlbum: the handler rates without attaching the album,
\* no row is inserted.
ensureUserAlbumSkipped(userId, albumId, t) == user_albums

\* Mutant of ensureUserAlbum: REPLACE INTO instead of INSERT IGNORE, an
\* existing row of the pair is deleted and inserted anew.
ensureUserAlbumReplace(userId, albumId, t) ==
    {ua \in user_albums : ~(ua.user_id = userId /\ ua.album_id = albumId)}
        \cup {[user_id |-> userId, album_id |-> albumId,
               notes |-> UserAlbumsDefaults(t).notes,
               created_at |-> UserAlbumsDefaults(t).created_at,
               journaled |-> Cardinality(user_albums) + 1]}

\* INSERT IGNORE INTO user_albums (user_id, album_id) VALUES (?, ?)
\* (journaled is no column: it numbers the rows in the order of their
\* INSERTs, no statement reads it)
ensureUserAlbum(userId, albumId, t) ==
    IF UserAlbumsDuplicateKey(userId, albumId)
    THEN user_albums
    ELSE user_albums \cup
             {[user_id |-> userId, album_id |-> albumId,
               notes |-> UserAlbumsDefaults(t).notes,
               created_at |-> UserAlbumsDefaults(t).created_at,
               journaled |-> Cardinality(user_albums) + 1]}

EnsureUserAlbum(s) ==
    /\ req[s].route \in AlbumRoutes /\ req[s].pc = "ensureUserAlbum"
    /\ \E t \in now..MaxTime :
           /\ user_albums' = ensureUserAlbum(req[s].userId, req[s].albumId, t)
           /\ now' = IF user_albums' = user_albums THEN now ELSE t
    /\ CASE req[s].route = "postAlbum" ->
                Respond(s, [SuccessJson("postAlbum") EXCEPT !.albumId = req[s].albumId])
         [] req[s].route = "postNotes" -> Goto(s, "updateNotes")
         [] req[s].route = "postRating" -> Goto(s, "upsertRating")
    /\ UNCHANGED <<users, albums, track_ratings, session, nreq>>

\* -------------------------------------------------------- POST /user/albums
PostAlbumArrive(s, body) ==
    IF ~requireLogin(s)
    THEN Reject(s, "postAlbum", NoBody, NotAuthenticated("postAlbum"))
    ELSE IF Falsy(body.externalId) \/ Falsy(body.title) \/ Falsy(body.artist)
    THEN Reject(s, "postAlbum", body, ErrorJson("postAlbum", 400, "Missing album data"))
    ELSE Begin(s, "postAlbum", body, "findAlbum")

PostAlbumStart(s) ==
    /\ CanStart(s)
    /\ \E body \in PostAlbumBodies : PostAlbumArrive(s, body)
    /\ nreq' = [nreq EXCEPT ![s] = @ + 1]
    /\ UNCHANGED <<tables, session, now>>

\* --------------------------------------------------------- GET /user/albums
GetAlbumsStart(s) ==
    /\ CanStart(s)
    /\ IF ~requireLogin(s)
       THEN Reject(s, "getAlbums", NoBody, NotAuthenticated("getAlbums"))
       ELSE Begin(s, "getAlbums", NoBody, "selectAlbums")
    /\ nreq' = [nreq EXCEPT ![s] = @ + 1]
    /\ UNCHANGED <<tables, session, now>>

\* Mutant of JoinedAlbums: the WHERE ua.user_id = ? is missing.
JoinedAlbumsOfAllUsers(userId) ==
    {[external_id |-> albums[i].external_id, title |-> albums[i].title,
      artist |-> albums[i].artist, cover_url |-> albums[i].cover_url,
      created_at |-> ua.created_at, notes |-> ua.notes] :
         <<ua, i>> \in {p \in user_albums \X (1..Len(albums)) :
                           p[1].album_id = albums[p[2]].id}}

\* user_albums ua JOIN albums a ON ua.album_id = a.id WHERE ua.user_id = ?
JoinedAlbums(userId) ==
    {[external_id |-> albums[i].external_id, title |-> albums[i].title,
      artist |-> albums[i].artist, cover_url |-> albums[i].cover_url,
      created_at |-> ua.created_at, notes |-> ua.notes] :
         <<ua, i>> \in {p \in user_albums \X (1..Len(albums)) :
                           p[1].user_id = userId /\ p[1].album_id = albums[p[2]].id}}

\* ORDER BY ua.created_at DESC: any order of the rows that never puts an
\* older row before a newer one (rows of one second come in any order)
OrderedByCreatedAtDesc(rows) ==
    {q \in [1..Cardinality(rows) -> rows] :
        /\ \A i, j \in 1..Cardinality(rows) : i # j => q[i] # q[j]
        /\ \A i, j \in 1..Cardinality(rows) :
               i < j => q[i].created_at >= q[j].created_at}

GetAlbumsSelect(s) ==
    /\ At(s, "getAlbums", "selectAlbums")
    /\ \E rows \in OrderedByCreatedAtDesc(JoinedAlbums(req[s].userId)) :
           Respond(s, [NoResp EXCEPT !.route = "getAlbums", !.status = 200,
                                     !.albums = rows])
    /\ UNCHANGED <<tables, session, now, nreq>>

\* ---------------------------------------------------- POST /user/album-notes
PostNotesArrive(s, body) ==
    IF ~requireLogin(s)
    THEN Reject(s, "postNotes", NoBody, NotAuthenticated("postNotes"))
    ELSE IF Falsy(body.externalId)
    THEN Reject(s, "postNotes", body, ErrorJson("postNotes", 400, "Missing albumExternalId"))
    ELSE Begin(s, "postNotes", body, "findAlbum")

PostNotesStart(s) ==
    /\ CanStart(s)
    /\ \E body \in PostNotesBodies : PostNotesArrive(s, body)
    /\ nreq' = [nreq EXCEPT ![s] = @ + 1]
    /\ UNCHANGED <<tables, session, now>>

\* Mutant of NotesParam: the notes are stored as they were sent.
NotesParamAsSent(notes) == notes

\* notes || null
NotesParam(notes) == OrElse(notes, NULL)

\* UPDATE user_albums SET notes = ? WHERE user_id = ? AND album_id = ?
UpdateNotes(s) ==
    /\ At(s, "postNotes", "updateNotes")
    /\ user_albums' =
           {IF ua.user_id = req[s].userId /\ ua.album_id = req[s].albumId
            THEN [ua EXCEPT !.notes = NotesParam(req[s].body.notes)]
            ELSE ua : ua \in user_albums}
    /\ Respond(s, SuccessJson("postNotes"))
    /\ UNCHANGED <<users, albums, track_ratings, session, now, nreq>>

\* ------------------------------------------------------- POST /user/ratings
\* Mutant of RatingRefused: the Number.isInteger test is missing.
RatingRefusedRangeOnly(numericRating) ==
    \/ LessThan(numericRating, MinRating)
    \/ GreaterThan(numericRating, MaxRating)

\* the rating check of the handler: true when the rating is refused
RatingRefused(numericRating) ==
    \/ ~IsInteger(numericRating)
    \/ LessThan(numericRating, MinRating)
    \/ GreaterThan(numericRating, MaxRating)

PostRatingArrive(s, body) ==
    IF ~requireLogin(s)
    THEN Reject(s, "postRating", NoBody, NotAuthenticated("postRating"))
    ELSE IF \/ Falsy(body.externalId) \/ Falsy(body.trackId)
            \/ Falsy(body.trackName) \/ body.rating.k = "null"
    THEN Reject(s, "postRating", body, ErrorJson("postRating", 400, "Missing rating data"))
    ELSE IF RatingRefused(Number(body.rating))
    THEN Reject(s, "postRating", body,
                ErrorJson("postRating", 400, "Rating must be an integer between 1 and 5"))
    ELSE Begin(s, "postRating", body, "findAlbum")

PostRatingStart(s) ==
    /\ CanStart(s)
    /\ \E body \in PostRatingBodies : PostRatingArrive(s, body)
    /\ nreq' = [nreq EXCEPT ![s] = @ + 1]
    /\ UNCHANGED <<tables, session, now>>

\* unique key of track_ratings: (user_id, album_id, track_id)
RatingsSameKey(tr, userId, albumId, trackId) ==
    tr.user_id = userId /\ tr.album_id = albumId /\ tr.track_id = trackId

\* the column track_ratings.track_id: text, it stores the trackId of the
\* request as it was sent
TrackIdColumn(trackId) == trackId

\* Mutant of upsertRatingUpdate: ON DUPLICATE KEY UPDATE also sets
\* track_name = VALUES(track_name).
upsertRatingUpdateWithName(tr, trackName, rating, t) ==
    [tr EXCEPT !.track_name = trackName, !.rating = rating, !.updated_at = t]

\* ON DUPLICATE KEY UPDATE rating = VALUES(rating), updated_at = CURRENT_TIMESTAMP
\* applied to the row tr of the key
upsertRatingUpdate(tr, trackName, rating, t) ==
    [tr EXCEPT !.rating = rating, !.updated_at = t]

\* Mutant of upsertRating: the statement is an UPDATE only, a key without a
\* row gets none.
upsertRatingUpdateOnly(userId, albumId, trackId, trackName, rating, t) ==
    {IF RatingsSameKey(tr, userId, albumId, trackId)
     THEN upsertRatingUpdate(tr, trackName, rating, t)
     ELSE tr : tr \in track_ratings}

\* INSERT INTO track_ratings ... ON DUPLICATE KEY UPDATE
\*     rating = VALUES(rating), updated_at = CURRENT_TIMESTAMP
upsertRating(userId, albumId, trackId, trackName, rating, t) ==
    IF \E tr \in track_ratings : RatingsSameKey(tr, userId, albumId, trackId)
    THEN {IF RatingsSameKey(tr, userId, albumId, trackId)
          THEN upsertRatingUpdate(tr, trackName, rating, t)
          ELSE tr : tr \in track_ratings}
    ELSE track_ratings \cup
             {[user_id |-> userId, album_id |-> albumId,
               track_id |-> TrackIdColumn(trackId),
               track_name |-> trackName, rating |-> rating, updated_at |-> t]}

UpsertRating(s) ==
    /\ At(s, "postRating", "upsertRating")
    /\ CurrentTimestamp(now')
    /\ track_ratings' = upsertRating(req[s].userId, req[s].albumId, req[s].body.trackId,
                                     req[s].body.trackName,
                                     Number(req[s].body.rating), now')
    /\ Respond(s, SuccessJson("postRating"))
    /\ UNCHANGED <<users, albums, user_albums, session, nreq>>

\* ------------------------------------------- GET /user/ratings/:externalId
GetRatingsStart(s) ==
    /\ CanStart(s)
    /\ \E externalId \in ExternalIds :
           LET body == [NoBody EXCEPT !.externalId = externalId]
           IN  IF ~requireLogin(s)
               THEN Reject(s, "getRatings", NoBody, NotAuthenticated("getRatings"))
               ELSE Begin(s, "getRatings", body, "findAlbum")
    /\ nreq' = [nreq EXCEPT ![s] = @ + 1]
    /\ UNCHANGED <<tables, session, now>>

GetRatingsFindAlbum(s) ==
    /\ At(s, "getRatings", "findAlbum")
    /\ LET found == {i \in 1..Len(albums) :
                        albums[i].external_id = req[s].body.externalId}
       IN  IF found = {}
           THEN Respond(s, [NoResp EXCEPT !.route = "getRatings", !.status = 200])
           ELSE \E i \in found :
                    /\ req' = [req EXCEPT ![s].albumId = albums[i].id,
                                          ![s].pc = "selectRatings"]
                    /\ UNCHANGED resp
    /\ UNCHANGED <<tables, session, now, nreq>>

\* map[key] = value on map = {}: an ordinary key becomes an own property of
\* the object; the key "__proto__" reaches the accessor of Object.prototype,
\* which makes the value (an object) the prototype of map and adds no property
OwnKeys(keys) == keys \ {ProtoKey}

\* SELECT track_id, track_name, rating FROM track_ratings
\*     WHERE user_id = ? AND album_id = ?
\* and the object built from its rows, as res.json serialises it (own
\* properties only)
RatingsMap(userId, albumId) ==
    LET rows == {tr \in track_ratings : tr.user_id = userId /\ tr.album_id = albumId}
    IN  [t \in OwnKeys({tr.track_id : tr \in rows}) |->
            LET row == CHOOSE tr \in rows : tr.track_id = t
            IN  [trackId |-> row.track_id, trackName |-> row.track_name,
                 rating |-> row.rating]]

GetRatingsSelect(s) ==
    /\ At(s, "getRatings", "selectRatings")
    /\ Respond(s, [NoResp EXCEPT !.route = "getRatings", !.status = 200,
                                 !.ratings = RatingsMap(req[s].userId, req[s].albumId)])
    /\ UNCHANGED <<tables, session, now, nreq>>

\* ------------------------------------------------------------ specification
Init ==
    /\ users = << >>
    /\ albums = << >>
    /\ user_albums = {}
    /\ track_ratings = {}
    /\ session = [s \in Sessions |-> NoUser]
    /\ req = [s \in Sessions |-> IdleReq]
    /\ resp = [s \in Sessions |-> NoResp]
    /\ now = 0
    /\ nreq = [s \in Sessions |-> 0]

Next ==
    \/ \E s \in Sessions :
        \/ RegisterStart(s) \/ RegisterFindUser(s) \/ RegisterInsertUser(s)
        \/ LoginStart(s) \/ LoginFindUser(s)
        \/ MeStart(s) \/ MeSelectUser(s)
        \/ Logout(s)
        \/ PostAlbumStart(s) \/ GetAlbumsStart(s) \/ GetAlbumsSelect(s)
        \/ PostNotesStart(s) \/ PostRatingStart(s)
        \/ FindAlbum(s) \/ InsertAlbum(s) \/ EnsureUserAlbum(s)
        \/ UpdateNotes(s) \/ UpsertRating(s)
        \/ GetRatingsStart(s) \/ GetRatingsFindAlbum(s) \/ GetRatingsSelect(s)

Spec == Init /\ [][Next]_vars


\* ----------------------------------------------- failing store statements
\* the positions at which a handler awaits pool.query
Statements ==
    {"findUser", "insertUser", "selectUser", "findAlbum", "insertAlbum",
     "ensureUserAlbum", "selectAlbums", "updateNotes", "upsertRating",
     "selectRatings"}

\* Mutant of StoreFails: the rejection is swallowed and the handler answers
\* success.
StoreFailsSwallowed(s) ==
    /\ req[s].pc \in Statements
    /\ Respond(s, SuccessJson(req[s].route))
    /\ UNCHANGED <<tables, session, now, nreq>>

\* the pool.query a handler awaits is rejected (connection lost, timeout,
\* statement refused): the statement has no effect, the rejection is thrown
\* out of the await into the route's catch, which logs it and answers 500
StoreFails(s) ==
    /\ req[s].pc \in Statements
    /\ Respond(s, ServerError(req[s].route))
    /\ UNCHANGED <<tables, session, now, nreq>>

\* the clients of the specification with failing statements
FailureClients == {"s1"}

NextFailure ==
    \E s \in FailureClients :
        \/ RegisterStart(s) \/ RegisterFindUser(s) \/ RegisterInsertUser(s)
        \/ LoginStart(s) \/ LoginFindUser(s)
        \/ MeStart(s) \/ MeSelectUser(s)
        \/ Logout(s)
        \/ PostAlbumStart(s) \/ GetAlbumsStart(s) \/ GetAlbumsSelect(s)
        \/ PostNotesStart(s) \/ PostRatingStart(s)
        \/ FindAlbum(s) \/ InsertAlbum(s) \/ EnsureUserAlbum(s)
        \/ UpdateNotes(s) \/ UpsertRating(s)
        \/ GetRatingsStart(s) \/ GetRatingsFindAlbum(s) \/ GetRatingsSelect(s)
        \/ StoreFails(s)

SpecFailure == Init /\ [][NextFailure]_vars

\* ------------------------------------- the strength check on its own
PasswordChars == {"a", "A", "1", "!", " ", "\n"}

PasswordDomain ==
    {[i \in 1..n |-> c] \o tail :
        n \in 0..MaxPad, c \in PasswordChars,
        tail \in UNION {[1..k -> PasswordChars] : k \in 1..MaxTail}}

\* a POST /register has arrived; its handler has not run yet
InitPassword ==
    /\ users = << >>
    /\ albums = << >>
    /\ user_albums = {}
    /\ track_ratings = {}
    /\ session = [s \in Sessions |-> NoUser]
    /\ \E password \in PasswordDomain :
           req = [s \in Sessions |->
                     IF s = "s1"
                     THEN [IdleReq EXCEPT
                              !.pc = "arrived", !.route = "register",
                              !.body = [NoBody EXCEPT !.username = "alice",
                                                      !.password = password]]
                     ELSE IdleReq]
    /\ resp = [s \in Sessions |-> NoResp]
    /\ now = 0
    /\ nreq = [s \in Sessions |-> IF s = "s1" THEN 1 ELSE 0]

RegisterHandle(s) ==
    /\ At(s, "register", "arrived")
    /\ RegisterArrive(s, req[s].body.username, req[s].body.password)
    /\ UNCHANGED <<tables, session, now, nreq>>

NextPassword ==
    \E s \in Sessions :
        RegisterHandle(s) \/ RegisterFindUser(s) \/ RegisterInsertUser(s)

SpecPassword == InitPassword /\ [][NextPassword]_vars

\* ================================================================= claims

\* C1: in every reachable state the albums table holds at most one row per
\* external_id, whatever the interleaving of the SELECT and INSERT steps of
\* the three routes that call findOrCreateAlbum.
C1_OneAlbumPerExternalId ==
    \A i, j \in 1..Len(albums) :
        albums[i].external_id = albums[j].external_id => i = j

\* two calls for the same externalId both found no row, one has inserted
\* and the other is about to
C1_Witness ==
    \E s, t \in Sessions :
        /\ s # t
        /\ req[s].route \in AlbumRoutes /\ req[s].pc = "insertAlbum"
        /\ req[t].route \in AlbumRoutes /\ req[t].pc \in {"ensureUserAlbum", "done"}
        /\ req[t].body.externalId = req[s].body.externalId
        /\ \E i \in 1..Len(albums) : albums[i].external_id = req[s].body.externalId

\* C2: a findOrCreateAlbum call whose SELECT found no row always completes its
\* INSERT step successfully, holding the id of the one album row of its
\* externalId, also when a concurrent call inserted that row in between; the
\* request does not end in an error response.
C2_InsertRaceResolved ==
    [][\A s \in Sessions :
          (req[s].route \in AlbumRoutes /\ req[s].pc = "insertAlbum" /\ req'[s] # req[s])
          => /\ req'[s].pc = "ensureUserAlbum"
             /\ \E i \in 1..Len(albums') :
                    /\ albums'[i].external_id = req[s].body.externalId
                    /\ albums'[i].id = req'[s].albumId]_vars

\* C3: a POST /register with a username and a strength-valid password ends
\* either in success, having created the user row of that username and set the
\* session, or, when the username has a row already, in 400 'Username already
\* taken' with no user row created and no session set.
C3_RegisterOnceElseConflict ==
    [][\A s \in Sessions :
          (req[s].route = "register" /\ req[s].pc \in {"findUser", "insertUser"}
              /\ req'[s].pc = "done")
          => IF \E i \in 1..Len(users) : users[i].username = req[s].body.username
             THEN /\ resp'[s] = ErrorJson("register", 400, "Username already taken")
                  /\ users' = users
                  /\ session' = session
             ELSE /\ resp'[s].success
                  /\ Len(users') = Len(users) + 1
                  /\ users'[Len(users')].username = req[s].body.username
                  /\ session'[s].userId = users'[Len(users')].id]_vars


\* C4: passwordMeetsRequirements(p) is true exactly when p has at least 8
\* characters and holds a lowercase letter, an uppercase letter, a digit and a
\* character outside [A-Za-z0-9] (whitespace and newline included), and
\* POST /register answers a non-empty password with WeakPasswordError exactly
\* when that is false.
StatedRequirements(p) ==
    /\ Len(p) >= 8
    /\ \E i \in 1..Len(p) : p[i] \in Lower
    /\ \E i \in 1..Len(p) : p[i] \in Upper
    /\ \E i \in 1..Len(p) : p[i] \in Digit
    /\ \E i \in 1..Len(p) : p[i] \notin Lower \cup Upper \cup Digit

C4_StrengthAsStated ==
    [][\A s \in Sessions :
          (At(s, "register", "arrived") /\ req'[s] # req[s])
          => /\ passwordMeetsRequirements(req[s].body.password)
                  <=> StatedRequirements(req[s].body.password)
             /\ (resp'[s].status = 400 /\ resp'[s].error = WeakPasswordMessage)
                  <=> ~StatedRequirements(req[s].body.password)]_vars

\* what the regular expression decides: the stated requirements on an input
\* without line terminators
C4_StrengthOfRegex ==
    [][\A s \in Sessions :
          (At(s, "register", "arrived") /\ req'[s] # req[s])
          => LET p == req[s].body.password
             IN  (resp'[s].status = 400 /\ resp'[s].error = WeakPasswordMessage)
                   <=> ~(StatedRequirements(p) /\ \A i \in 1..Len(p) : Dot(p[i]))]_vars


\* C5: a POST /login for a username without a user row and a POST /login
\* for an existing username with a password that does not match its hash are
\* answered with one and the same response, status 400 and 'Invalid username
\* or password', and leave every session as it was.
C5_LoginFailuresIdentical ==
    [][\A s \in Sessions :
          (At(s, "login", "findUser") /\ req'[s].pc = "done")
          => LET rows == {i \in 1..Len(users) : users[i].username = req[s].body.username}
                 unknown == rows = {}
                 wrong == /\ rows # {}
                          /\ \A i \in rows :
                                 users[i].password_hash # bcryptHash(req[s].body.password)
             IN  (unknown \/ wrong)
                 => /\ resp'[s] = ErrorJson("login", 400, "Invalid username or password")
                    /\ session' = session]_vars

\* one client was refused for an unknown username, the other for a wrong
\* password of an existing user
C5_Witness ==
    \E s, t \in Sessions :
        /\ s # t
        /\ req[s].route = "login" /\ req[s].pc = "done" /\ resp[s].status = 400
        /\ req[t].route = "login" /\ req[t].pc = "done" /\ resp[t].status = 400
        /\ resp[s] = resp[t]
        /\ req[s].body.username \in Usernames
        /\ \A i \in 1..Len(users) : users[i].username # req[s].body.username
        /\ \E i \in 1..Len(users) :
               /\ users[i].username = req[t].body.username
               /\ req[t].body.password # NoPassword
               /\ users[i].password_hash # bcryptHash(req[t].body.password)

\* C6: a /user/* request that arrives on a session without userId is answered
\* 401 'Not authenticated' at once, its handler issues no statement, and
\* users, albums, user_albums and track_ratings stay as they are.
C6_GateRefusesWithoutUserId ==
    [][\A s \in Sessions :
          (Arrives(s) /\ session[s].userId = 0 /\ req'[s].route \in UserRoutes)
          => /\ req'[s].pc = "done"
             /\ resp'[s] = NotAuthenticated(req'[s].route)
             /\ UNCHANGED tables]_vars

\* a rating sent without a login was refused while the tables already hold
\* rows, a rating among them
C6_Witness ==
    \E s \in Sessions :
        /\ req[s].route = "postRating" /\ req[s].pc = "done" /\ req[s].userId = 0
        /\ resp[s] = NotAuthenticated("postRating")
        /\ track_ratings # {}
        /\ Len(users) > 0 /\ Len(albums) > 0

\* C7: the session of a client changes only by a successful register or login,
\* which sets it to that user, and by POST /logout, which always answers
\* success and leaves the session without userId, whether or not a user was
\* logged in; while the session has no userId every /user/* request gets 401
\* and GET /me returns user null, and while it has one the /user/* requests
\* run as that user.
C7_SessionLifecycle ==
    [][\A s \in Sessions :
          /\ (Arrives(s) /\ req'[s].route = "logout")
             => /\ session'[s] = NoUser
                /\ req'[s].pc = "done"
                /\ resp'[s] = SuccessJson("logout")
          /\ (Arrives(s) /\ session[s].userId = 0 /\ req'[s].route \in UserRoutes)
             => resp'[s] = NotAuthenticated(req'[s].route)
          /\ (Arrives(s) /\ session[s].userId = 0 /\ req'[s].route = "me")
             => /\ req'[s].pc = "done"
                /\ resp'[s].status = 200 /\ resp'[s].user = NullUser
          /\ (Arrives(s) /\ session[s].userId # 0 /\ req'[s].route \in UserRoutes)
             => /\ resp'[s].status # 401
                /\ req'[s].userId = session[s].userId
          /\ (req[s].route \in {"register", "login"} /\ req[s].pc # "done"
                 /\ req'[s].pc = "done" /\ resp'[s].success)
             => /\ session'[s].userId = resp'[s].user.id
                /\ session'[s].username = req[s].body.username
                /\ users'[session'[s].userId].username = req[s].body.username
          /\ session'[s] # session[s]
             => \/ Arrives(s) /\ req'[s].route = "logout"
                \/ /\ req[s].route \in {"register", "login"}
                   /\ req'[s].pc = "done" /\ resp'[s].success]_vars

\* a logged-in client has logged out
C7_Witness ==
    \E s \in Sessions :
        /\ req[s].route = "logout" /\ req[s].pc = "done" /\ req[s].userId # 0
        /\ resp[s] = SuccessJson("logout")
        /\ session[s] = NoUser

\* C8: track_ratings holds at most one row per (user_id, album_id, track_id)
\* in every reachable state, and each successful upsert leaves the single row
\* of its key with the rating it carried, so of two upserts in a row the
\* second one's rating stays.
SameRatingKey(a, b) ==
    a.user_id = b.user_id /\ a.album_id = b.album_id /\ a.track_id = b.track_id

C8_OneRatingPerKey ==
    /\ [](\A a, b \in track_ratings : SameRatingKey(a, b) => a = b)
    /\ [][\A s \in Sessions :
             (At(s, "postRating", "upsertRating") /\ req'[s].pc = "done")
             => LET key == [user_id |-> req[s].userId, album_id |-> req[s].albumId,
                            track_id |-> req[s].body.trackId]
                    rows == {tr \in track_ratings' : SameRatingKey(tr, key)}
                IN  /\ resp'[s] = SuccessJson("postRating")
                    /\ Cardinality(rows) = 1
                    /\ \A tr \in rows : tr.rating = req[s].body.rating]_vars

\* two clients of one user have rated the same track of the same album with
\* different ratings, and the one row holds one of the two
C8_Witness ==
    \E s, t \in Sessions :
        /\ s # t
        /\ req[s].route = "postRating" /\ req[s].pc = "done" /\ resp[s].success
        /\ req[t].route = "postRating" /\ req[t].pc = "done" /\ resp[t].success
        /\ req[s].userId = req[t].userId /\ req[s].albumId = req[t].albumId
        /\ req[s].body.trackId = req[t].body.trackId
        /\ req[s].body.rating = Num(MinRating, FALSE)
        /\ req[t].body.rating = Num(MaxRating, FALSE)
        /\ \E tr \in track_ratings :
               /\ tr.user_id = req[t].userId /\ tr.album_id = req[t].albumId
               /\ tr.rating = req[t].body.rating

\* C9: POST /user/ratings, logged in and with externalId, trackId and trackName
\* present, accepts the rating exactly when its numeric value is an integer in
\* 1..5; a refused rating is answered 400 at arrival, the handler issues no
\* statement and no table changes; every stored rating is an integer in 1..5.
IntegerFromOneToFive(n) ==
    n \in {Num(i, FALSE) : i \in 1..5}

C9_RatingValidation ==
    /\ [](\A tr \in track_ratings : IntegerFromOneToFive(tr.rating))
    /\ [][\A s \in Sessions :
             (/\ Arrives(s) /\ req'[s].route = "postRating" /\ session[s].userId # 0
              /\ ~Falsy(req'[s].body.externalId) /\ ~Falsy(req'[s].body.trackId)
              /\ ~Falsy(req'[s].body.trackName))
             => IF IntegerFromOneToFive(Number(req'[s].body.rating))
                THEN req'[s].pc = "findAlbum" /\ resp'[s] = NoResp
                ELSE /\ req'[s].pc = "done"
                     /\ resp'[s] = ErrorJson("postRating", 400,
                                      IF req'[s].body.rating.k = "null"
                                      THEN "Missing rating data"
                                      ELSE "Rating must be an integer between 1 and 5")
                     /\ UNCHANGED tables]_vars

\* the rating 3.5 was refused while a rating is stored
C9_Witness ==
    \E s \in Sessions :
        /\ req[s].route = "postRating" /\ req[s].pc = "done" /\ req[s].userId # 0
        /\ req[s].body.rating = Num(3, TRUE)
        /\ resp[s].status = 400
        /\ track_ratings # {}

\* C10: album rows are never changed or removed, and a findOrCreateAlbum call
\* whose SELECT finds a row for its externalId returns that row's id and
\* inserts nothing, whatever title, artist and coverUrl it was given; the
\* albumId POST /user/albums answers is the id of the row of its externalId.
C10_FirstWriteWins ==
    /\ [](\A s \in Sessions :
             (req[s].route = "postAlbum" /\ req[s].pc = "done" /\ resp[s].success)
             => \E i \in 1..Len(albums) :
                    /\ albums[i].external_id = req[s].body.externalId
                    /\ albums[i].id = resp[s].albumId)
    /\ [][/\ Len(albums') >= Len(albums)
          /\ \A i \in 1..Len(albums) : albums'[i] = albums[i]
          /\ \A s \in Sessions :
                (/\ req[s].route \in AlbumRoutes /\ req[s].pc = "findAlbum"
                 /\ req'[s] # req[s]
                 /\ \E i \in 1..Len(albums) :
                        albums[i].external_id = req[s].body.externalId)
                => /\ albums' = albums
                   /\ req'[s].pc = "ensureUserAlbum"
                   /\ \E i \in 1..Len(albums) :
                          /\ albums[i].external_id = req[s].body.externalId
                          /\ albums[i].id = req'[s].albumId]_vars

\* a call with another title, artist and cover than the stored ones has
\* returned the id of the stored row
C10_Witness ==
    \E s \in Sessions :
        /\ req[s].route \in AlbumRoutes /\ req[s].pc = "done" /\ resp[s].success
        /\ \E i \in 1..Len(albums) :
               /\ albums[i].external_id = req[s].body.externalId
               /\ albums[i].id = req[s].albumId
               /\ albums[i].title # AlbumArgs(req[s]).title
               /\ albums[i].artist # AlbumArgs(req[s]).artist
               /\ albums[i].cover_url # AlbumArgs(req[s]).cover_url

\* C11: GET /user/ratings/:externalId of a logged-in user is never refused and
\* never answers an error; it answers the empty mapping when no album has the
\* externalId or the user has no rating on that album, and otherwise a mapping
\* with exactly one entry per track the user rated on that album, each with the
\* rating and name stored at the time of the SELECT; no table changes.
C11_GetRatingsMapping ==
    [][\A s \in Sessions :
          /\ (Arrives(s) /\ req'[s].route = "getRatings" /\ session[s].userId # 0)
             => req'[s].pc = "findAlbum" /\ UNCHANGED tables
          /\ (req[s].route = "getRatings" /\ req[s].pc \in {"findAlbum", "selectRatings"}
                 /\ req'[s] # req[s])
             => /\ UNCHANGED tables
                /\ req'[s].pc \in {"selectRatings", "done"}
                /\ req'[s].pc = "done"
                   => LET rows == {tr \in track_ratings :
                                      /\ tr.user_id = req[s].userId
                                      /\ \E i \in 1..Len(albums) :
                                             /\ albums[i].external_id = req[s].body.externalId
                                             /\ albums[i].id = tr.album_id}
                      IN  /\ resp'[s].status = 200 /\ resp'[s].error = ""
                          /\ DOMAIN resp'[s].ratings = {tr.track_id : tr \in rows}
                          /\ \A tr \in rows :
                                 resp'[s].ratings[tr.track_id] =
                                     [trackId |-> tr.track_id, trackName |-> tr.track_name,
                                      rating |-> tr.rating]]_vars

\* what the handler answers: the same, with an entry for every rated track
\* whose id is an ordinary property key
C11_MappingOfOwnKeys ==
    [][\A s \in Sessions :
          (At(s, "getRatings", "selectRatings") /\ req'[s].pc = "done")
          => LET rows == {tr \in track_ratings :
                             /\ tr.user_id = req[s].userId
                             /\ \E i \in 1..Len(albums) :
                                    /\ albums[i].external_id = req[s].body.externalId
                                    /\ albums[i].id = tr.album_id}
             IN  /\ resp'[s].status = 200 /\ resp'[s].error = ""
                 /\ DOMAIN resp'[s].ratings = {tr.track_id : tr \in rows} \ {ProtoKey}
                 /\ \A tr \in rows :
                        tr.track_id # ProtoKey
                        => resp'[s].ratings[tr.track_id] =
                               [trackId |-> tr.track_id, trackName |-> tr.track_name,
                                rating |-> tr.rating]]_vars

\* C12: GET /user/albums answers each album the user has journaled exactly
\* once, in the order of journaling, the album journaled last first (A then B
\* yields [B, A]); no step moves or duplicates a user_albums row: a later
\* save, notes or rating of A leaves the row of A where it was.
C12_AlbumsInJournalingOrder ==
    /\ [](\A a, b \in user_albums :
              (a.user_id = b.user_id /\ a.album_id = b.album_id) => a = b)
    /\ [][/\ \A ua \in user_albums :
                 \E ub \in user_albums' :
                     /\ ub.user_id = ua.user_id /\ ub.album_id = ua.album_id
                     /\ ub.created_at = ua.created_at /\ ub.journaled = ua.journaled
          /\ \A s \in Sessions :
                 (At(s, "getAlbums", "selectAlbums") /\ req'[s].pc = "done")
                 => LET mine == {ua \in user_albums : ua.user_id = req[s].userId}
                        q == resp'[s].albums
                        rowOf(r) == CHOOSE ua \in mine :
                                        albums[ua.album_id].external_id = r.external_id
                    IN  /\ resp'[s].status = 200
                        /\ DOMAIN q = 1..Cardinality(mine)
                        /\ \A ua \in mine :
                               \E i \in DOMAIN q :
                                   q[i].external_id = albums[ua.album_id].external_id
                        /\ \A i, j \in DOMAIN q :
                               i < j => rowOf(q[i]).journaled > rowOf(q[j]).journaled]_vars

\* what the handler answers: each journaled album once with its notes, no
\* album before one of a later second (albums journaled within one second come
\* in either order)
C12_AlbumsByCreatedAt ==
    [][\A s \in Sessions :
          (At(s, "getAlbums", "selectAlbums") /\ req'[s].pc = "done")
          => LET mine == {ua \in user_albums : ua.user_id = req[s].userId}
                 q == resp'[s].albums
             IN  /\ resp'[s].status = 200
                 /\ DOMAIN q = 1..Cardinality(mine)
                 /\ \A ua \in mine :
                        \E i \in DOMAIN q :
                            /\ q[i].external_id = albums[ua.album_id].external_id
                            /\ q[i].created_at = ua.created_at
                            /\ q[i].notes = ua.notes
                 /\ \A i, j \in DOMAIN q :
                        i < j => q[i].created_at >= q[j].created_at]_vars

\* C13: a POST /user/album-notes succeeds only through its UPDATE; that UPDATE
\* finds the user_albums row of the user and the album of the externalId, and
\* right after it that one row holds the notes of the request, or NULL when
\* the notes are absent, null or empty.
C13_NotesStored ==
    [][\A s \in Sessions :
          /\ (Arrives(s) /\ req'[s].route = "postNotes" /\ req'[s].pc = "done")
             => ~resp'[s].success
          /\ (req[s].route = "postNotes" /\ req[s].pc \notin {"idle", "done"}
                 /\ req'[s].pc = "done" /\ resp'[s].success)
             => LET rowsOf(T) ==
                        {ua \in T :
                            /\ ua.user_id = req[s].userId
                            /\ \E i \in 1..Len(albums) :
                                   /\ albums[i].external_id = req[s].body.externalId
                                   /\ albums[i].id = ua.album_id}
                    sent == req[s].body.notes
                IN  /\ req[s].pc = "updateNotes"
                    /\ Cardinality(rowsOf(user_albums)) = 1
                    /\ Cardinality(rowsOf(user_albums')) = 1
                    /\ \A ua \in rowsOf(user_albums') :
                           ua.notes = IF sent \in {UNDEFINED, NULL, ""} THEN NULL ELSE sent]_vars

\* one client stored notes for an album, another client of the same user
\* sent empty notes for it, and the row holds NULL
C13_Witness ==
    \E s, t \in Sessions :
        /\ s # t
        /\ req[s].route = "postNotes" /\ req[s].pc = "done" /\ resp[s].success
        /\ req[t].route = "postNotes" /\ req[t].pc = "done" /\ resp[t].success
        /\ req[s].userId = req[t].userId /\ req[s].albumId = req[t].albumId
        /\ req[s].body.notes = "n1" /\ req[t].body.notes = ""
        /\ \E ua \in user_albums :
               /\ ua.user_id = req[t].userId /\ ua.album_id = req[t].albumId
               /\ ua.notes = NULL

\* C14: while user_albums holds the row of (user, album of the externalId), a
\* well-formed POST /user/albums or POST /user/ratings of that user for that
\* album is accepted, none of its statements fails, it ends in success, and
\* each of its steps, the INSERT IGNORE included, leaves user_albums exactly as
\* it was: same rows, same notes, same created_at.
C14_AttachIsNoOp ==
    [][\A s \in Sessions :
          LET attached(r) ==
                  \E ua \in user_albums :
                      /\ ua.user_id = r.userId
                      /\ \E i \in 1..Len(albums) :
                             /\ albums[i].external_id = r.body.externalId
                             /\ albums[i].id = ua.album_id
              wellFormed(r) ==
                  \/ /\ r.route = "postAlbum"
                     /\ ~Falsy(r.body.title) /\ ~Falsy(r.body.artist)
                  \/ /\ r.route = "postRating"
                     /\ ~Falsy(r.body.trackId) /\ ~Falsy(r.body.trackName)
                     /\ IntegerFromOneToFive(Number(r.body.rating))
          IN  /\ (Arrives(s) /\ wellFormed(req'[s]) /\ attached(req'[s]))
                 => req'[s].pc = "findAlbum"
              /\ (/\ req[s].route \in {"postAlbum", "postRating"}
                  /\ req[s].pc \in {"findAlbum", "ensureUserAlbum", "upsertRating"}
                  /\ attached(req[s])
                  /\ req'[s] # req[s])
                 => /\ user_albums' = user_albums
                    /\ req'[s].pc \in {"ensureUserAlbum", "upsertRating", "done"}
                    /\ req'[s].pc = "done" => resp'[s].success]_vars

\* the only client stored notes for an album and then saved the album again:
\* the save succeeded and the row still holds the notes
C14_Witness ==
    \E s \in Sessions :
        /\ \A t \in Sessions \ {s} : nreq[t] = 0
        /\ req[s].route = "postAlbum" /\ req[s].pc = "done" /\ resp[s].success
        /\ \E ua \in user_albums :
               /\ ua.user_id = req[s].userId /\ ua.album_id = resp[s].albumId
               /\ ua.notes = "n1"

\* C15: in every reachable state, the states between the statements of a
\* request included, a session that carries a userId carries the id and the
\* username of a row of users.
C15_SessionUserExists ==
    \A s \in Sessions :
        session[s].userId # 0
        => \E i \in 1..Len(users) :
               /\ users[i].id = session[s].userId
               /\ users[i].username = session[s].username

\* how it is kept: rows of users are never removed or changed, and a step
\* that writes a userId to a session writes the id of a row that users holds
\* after the step
C15_UsersOnlyGrow ==
    [][/\ Len(users') >= Len(users)
       /\ \A i \in 1..Len(users) : users'[i] = users[i]
       /\ \A s \in Sessions :
              (session'[s] # session[s] /\ session'[s].userId # 0)
              => \E i \in 1..Len(users') : users'[i].id = session'[s].userId]_vars

\* one client is logged in, another lost the race of two registrations of
\* one username and carries no userId
C15_Witness ==
    \E s, t \in Sessions :
        /\ session[s].userId # 0
        /\ req[t].route = "register" /\ req[t].pc = "done" /\ resp[t].status = 500
        /\ session[t].userId = 0

\* C16: a request whose store statement fails is answered 500 with the generic
\* error of its route and nothing else, in the step of the failure: that step
\* changes no table and no session, so the rows the request wrote before stay;
\* the handler then rests until the client's next request arrives (no further
\* statement, no retry, no second response), and that next request is handled
\* as usual. A request answered success has made its writes.
C16_StoreFailureAnswered500 ==
    [][\A s \in Sessions :
          LET r == req[s]
              albumRow(T, id) ==
                  \E i \in 1..Len(T) :
                      T[i].external_id = r.body.externalId /\ T[i].id = id
              userAlbumRow(T, id) ==
                  \E ua \in T : ua.user_id = r.userId /\ ua.album_id = id
          IN  /\ (r.pc \in Statements /\ req'[s].pc = "done" /\ resp'[s].status = 500)
                 => /\ UNCHANGED <<tables, session>>
                    /\ resp'[s].error # ""
                    /\ resp'[s] = ErrorJson(r.route, 500, resp'[s].error)
              /\ (r.pc = "done" /\ req'[s] # r) => Arrives(s)
              /\ resp'[s] # resp[s]
                 => Arrives(s) \/ (r.pc \in Statements /\ req'[s].pc = "done")
              /\ (Arrives(s) /\ resp[s].status = 500)
                 => /\ resp'[s].status \in {0, 200, 400, 401}
                    /\ resp'[s].status = 0 <=> req'[s].pc \in Statements
              /\ (r.pc \in Statements /\ req'[s].pc = "done" /\ resp'[s].success)
                 => CASE r.route = "register" ->
                             \E i \in 1..Len(users') :
                                 /\ users'[i].username = r.body.username
                                 /\ users'[i].id = resp'[s].user.id
                      [] r.route = "postAlbum" ->
                             /\ albumRow(albums', resp'[s].albumId)
                             /\ userAlbumRow(user_albums', resp'[s].albumId)
                      [] r.route = "postNotes" ->
                             /\ albumRow(albums', r.albumId)
                             /\ userAlbumRow(user_albums', r.albumId)
                      [] r.route = "postRating" ->
                             /\ albumRow(albums', r.albumId)
                             /\ userAlbumRow(user_albums', r.albumId)
                             /\ \E tr \in track_ratings' :
                                    /\ tr.user_id = r.userId /\ tr.album_id = r.albumId
                                    /\ tr.track_id = r.body.trackId
                                    /\ tr.rating = Number(r.body.rating)
                      [] OTHER -> r.route = "login"]_vars

\* the second request of a client, a rating, failed at its last statement:
\* it was answered 500, and the album row and the user_albums row it wrote
\* are in the store without a rating
C16_Witness ==
    \E s \in Sessions :
        /\ nreq[s] = 2
        /\ req[s].route = "postRating" /\ req[s].pc = "done" /\ resp[s].status = 500
        /\ \E i \in 1..Len(albums) :
               /\ albums[i].external_id = req[s].body.externalId
               /\ \E ua \in user_albums :
                      ua.user_id = req[s].userId /\ ua.album_id = albums[i].id
        /\ track_ratings = {}

\* C17: the upsert of POST /user/ratings that meets a row of its (user, album,
\* track) changes only rating and updated_at of that row: the row keeps its
\* track_name, whatever trackName the request carries, every other row of
\* track_ratings stays as it is and no row is added.
C17_UpsertKeepsTrackName ==
    [][\A s \in Sessions :
          (At(s, "postRating", "upsertRating") /\ req'[s].pc = "done")
          => LET hit(tr) == /\ tr.user_id = req[s].userId
                            /\ tr.album_id = req[s].albumId
                            /\ tr.track_id = req[s].body.trackId
             IN  (\E tr \in track_ratings : hit(tr))
                 => /\ Cardinality(track_ratings') = Cardinality(track_ratings)
                    /\ \A tr \in track_ratings :
                           IF hit(tr)
                           THEN \E tn \in track_ratings' :
                                    /\ hit(tn)
                                    /\ tn.track_name = tr.track_name
                                    /\ tn.rating = Number(req[s].body.rating)
                                    /\ tn.updated_at >= tr.updated_at
                                    /\ tn = [tr EXCEPT !.rating = tn.rating,
                                                       !.updated_at = tn.updated_at]
                           ELSE tr \in track_ratings']_vars

\* a track rated as 'track one' was rated again under the name 'track 1' with
\* another rating: the row holds the new rating and the first name, beside a
\* row of another album
C17_Witness ==
    \E s \in Sessions :
        /\ req[s].route = "postRating" /\ req[s].pc = "done" /\ resp[s].success
        /\ req[s].body.trackName = "track 1"
        /\ \E tr \in track_ratings :
               /\ tr.user_id = req[s].userId /\ tr.album_id = req[s].albumId
               /\ tr.track_id = req[s].body.trackId
               /\ tr.track_name = "track one"
               /\ tr.rating = Number(req[s].body.rating)
        /\ \E tr \in track_ratings : tr.album_id # req[s].albumId

\* C18: in every reachable state, the states between the statements of a
\* request included, every track_ratings row has the user_albums row of its
\* (user, album), and every user_albums row has its albums row and its users
\* row.
C18_ReferentialIntegrity ==
    /\ \A tr \in track_ratings :
           \E ub \in user_albums :
               ub.user_id = tr.user_id /\ ub.album_id = tr.album_id
    /\ \A ua \in user_albums :
           /\ \E i \in 1..Len(albums) : albums[i].id = ua.album_id
           /\ \E i \in 1..Len(users) : users[i].id = ua.user_id

\* how it is kept: no step removes a row of albums, user_albums or
\* track_ratings
C18_NothingDeleted ==
    [][/\ Len(albums') >= Len(albums)
       /\ \A i \in 1..Len(albums) : albums'[i].id = albums[i].id
       /\ \A ua \in user_albums :
              \E ub \in user_albums' :
                  ub.user_id = ua.user_id /\ ub.album_id = ua.album_id
       /\ \A tr \in track_ratings :
              \E tn \in track_ratings' : SameRatingKey(tn, tr)]_vars

\* between two statements: a rating request has attached its album and has
\* not written its rating yet; another request has inserted an album that no
\* user_albums row refers to yet
C18_Witness ==
    \E s, t \in Sessions :
        /\ At(s, "postRating", "upsertRating")
        /\ \E ua \in user_albums :
               ua.user_id = req[s].userId /\ ua.album_id = req[s].albumId
        /\ \A tr \in track_ratings :
               ~(tr.user_id = req[s].userId /\ tr.album_id = req[s].albumId)
        /\ req[t].route \in AlbumRoutes /\ req[t].pc = "ensureUserAlbum"
        /\ \A ua \in user_albums : ua.album_id # req[t].albumId

\* C19: a step of a /user/* request that runs as user u leaves every
\* user_albums and track_ratings row of every other user as it is and adds
\* none; GET /user/albums answers exactly the user_albums rows of u and GET
\* /user/ratings only entries of track_ratings rows of u: rows of another user
\* on the same album are neither changed nor answered.
C19_PerUserOwnership ==
    [][\A s \in Sessions :
          (req[s].route \in UserRoutes /\ req[s].pc \in Statements /\ req'[s] # req[s])
          => LET u == req[s].userId
                 mine == {ua \in user_albums : ua.user_id = u}
                 q == resp'[s].albums
                 m == resp'[s].ratings
             IN  /\ {ua \in user_albums' : ua.user_id # u}
                        = {ua \in user_albums : ua.user_id # u}
                 /\ {tr \in track_ratings' : tr.user_id # u}
                        = {tr \in track_ratings : tr.user_id # u}
                 /\ (req[s].route = "getAlbums" /\ req'[s].pc = "done")
                    => /\ DOMAIN q = 1..Cardinality(mine)
                       /\ \A ua \in mine :
                              \E i \in DOMAIN q :
                                  /\ q[i].external_id = albums[ua.album_id].external_id
                                  /\ q[i].notes = ua.notes
                                  /\ q[i].created_at = ua.created_at
                 /\ (req[s].route = "getRatings" /\ req'[s].pc = "done")
                    => \A k \in DOMAIN m :
                           \E tr \in track_ratings :
                               /\ tr.user_id = u /\ tr.track_id = k
                               /\ albums[tr.album_id].external_id = req[s].body.externalId
                               /\ m[k] = [trackId |-> tr.track_id,
                                           trackName |-> tr.track_name,
                                           rating |-> tr.rating]]_vars

\* a user asked for the albums while only another user has journaled one,
\* and was answered the empty list
C19_Witness ==
    \E s \in Sessions :
        /\ req[s].route = "getAlbums" /\ req[s].pc = "done" /\ resp[s].status = 200
        /\ resp[s].albums = << >>
        /\ \E ua \in user_albums : ua.user_id # req[s].userId

====
